---------------------------- MODULE Spec2Model ----------------------------
(***************************************************************************)
(* carbonate-sync (criteo/carbonate-utils, carbonate_sync.py).             *)
(*                                                                         *)
(* The module holds four specifications over one set of definitions:       *)
(*   Spec         main(): the peers one after the other, each with its     *)
(*                metric listing, staging directory, batches and the       *)
(*                fetch/heal pipeline of _fetch_merge;                     *)
(*   SpecResolve  calls of _filter_metrics and _list_metrics;              *)
(*   SpecPlan     calls of _Batch.split_chunks;                            *)
(*   SpecHeal     the construction of a _Batch from keyword arguments and  *)
(*                _heal on it, as tests/test_carbonate_sync.py drives it.  *)
(*                                                                         *)
(* The code is Python 2 (print_function is imported from __future__,       *)
(* division is not): "/" on two ints is the floor division.                *)
(***************************************************************************)
EXTENDS Integers, Sequences, FiniteSets, TLC

(***************************************************************************)
(* Bounds of the model.                                                    *)
(***************************************************************************)
NumPeers == 2          \* remote nodes returned by _get_nodes
MaxCatalogue == 3      \* names in one carbon-list output (Spec)
MaxCpu == 2            \* multiprocessing.cpu_count() ranges over 1..MaxCpu
MaxBatchSize == 2      \* args.batch_size ranges over 1..MaxBatchSize
MaxFilterLen == 2      \* metrics in one _filter_metrics/_list_metrics call
MaxExclude == 2        \* patterns in one exclude list (SpecResolve)
MaxPlanLen == 4        \* metrics in one split_chunks call (SpecPlan)
MaxChunk == 3          \* chunksize ranges over 0..MaxChunk (SpecPlan)
MaxTime == 2           \* timestamps of a whisper file are 1..MaxTime

(***************************************************************************)
(* Program constants.                                                      *)
(***************************************************************************)
_MAX_PARALLEL_RSYNC == 4
fetch_percent == 10
heal_percent == 100 - fetch_percent
ArgStartTime == 0      \* default of --start-time

Min(a, b) == IF a <= b THEN a ELSE b

(***************************************************************************)
(* Strings are tuples of characters, so that re.search, str.replace and    *)
(* the ordering of sorted() are computed and not assumed.                  *)
(***************************************************************************)
Chars == {".", "/", "a", "b", "c", "f", "n", "o", "p", "r", "s", "w"}

\* ord(): the code points of the characters above.
Ord ==
  [ch \in Chars |->
     CASE ch = "." -> 46 [] ch = "/" -> 47 [] ch = "a" -> 97 [] ch = "b" -> 98
       [] ch = "c" -> 99 [] ch = "f" -> 102 [] ch = "n" -> 110 [] ch = "o" -> 111
       [] ch = "p" -> 112 [] ch = "r" -> 114 [] ch = "s" -> 115 [] ch = "w" -> 119]

\* a <= b for two str: the first differing character decides, else the length.
StrLeq(a, b) ==
  LET n == Min(Len(a), Len(b))
      diff == {i \in 1..n : a[i] # b[i]}
  IN  IF diff = {} THEN Len(a) <= Len(b)
      ELSE LET i == CHOOSE j \in diff : \A k \in diff : j <= k
           IN  Ord[a[i]] < Ord[b[i]]

\* One step of the insertion of x into the sorted list s.
SortedInsert(x, s) ==
  LET k == Cardinality({i \in 1..Len(s) : StrLeq(s[i], x)})
  IN  SubSeq(s, 1, k) \o <<x>> \o SubSeq(s, k + 1, Len(s))

RECURSIVE sorted(_)
\* sorted(list): ascending, every occurrence kept.
sorted(s) == IF s = <<>> THEN <<>> ELSE SortedInsert(Head(s), sorted(Tail(s)))

\* All sequences over S of length 0..n.
SeqsUpTo(S, n) == UNION {[1..k -> S] : k \in 0..n}

(***************************************************************************)
(* Values a call returns or raises.                                        *)
(***************************************************************************)
\* An exception: its type and the function that raised it.
Exception(type, where) == [type |-> type, where |-> where]
NoError == Exception("", "")

Value(v) == [kind |-> "value", error |-> NoError, value |-> v]
None == [kind |-> "None", error |-> NoError, value |-> <<>>]
Raise(type, where) == [kind |-> "raise", error |-> Exception(type, where), value |-> <<>>]

(***************************************************************************)
(* _run: the exit status and the output of the subprocess are inputs.      *)
(* lines is stdout.split('\n'): an empty stdout is the one empty line.     *)
(***************************************************************************)
NoOutput == << <<>> >>

_run(returncode, lines) ==
  IF returncode # 0 THEN Raise("Error", "_run")
  ELSE IF lines # NoOutput THEN Value(SelectSeq(lines, LAMBDA l : l # <<>>))
  ELSE None

\* _ssh returns what _run returns for the ssh command line.
_ssh(returncode, lines) == _run(returncode, lines)

(***************************************************************************)
(* Regular expressions: the model covers a literal with an optional "^"    *)
(* in front and an optional "$" behind, which is what DEFAULT_EXCLUDE and  *)
(* the patterns of test_filter_metrics are.                                *)
(***************************************************************************)
Pattern(bol, lit, eol) == [bol |-> bol, lit |-> lit, eol |-> eol]

\* The literal of regex r is found in m at position i.
MatchAt(r, m, i) ==
  /\ i >= 1
  /\ i + Len(r.lit) - 1 <= Len(m)
  /\ \A k \in 1..Len(r.lit) : m[i + k - 1] = r.lit[k]
  /\ r.bol => i = 1
  /\ r.eol => i + Len(r.lit) - 1 = Len(m)

\* re.match in the place of re.search: a match at the start of m only.
regex_match(r, m) == MatchAt(r, m, 1)

\* regex.search(m): a match anywhere in m.
regex_search(r, m) == \E i \in 1..(Len(m) + 1) : MatchAt(r, m, i)

RECURSIVE _filter_metrics(_, _)
\* One pass over the list per pattern, each pass on the previous one's result.
_filter_metrics(metrics, exclude) ==
  IF exclude = <<>> THEN metrics
  ELSE _filter_metrics(SelectSeq(metrics, LAMBDA m : ~regex_search(Head(exclude), m)),
                       Tail(exclude))

\* carbonate_sieve.filterMetrics(metrics, local_node, cluster, invert=False):
\* the names whose destinations in the cluster include local_node, in order.
sieve_filterMetrics(metrics, owned) == SelectSeq(metrics, LAMBDA m : m \in owned)

\* sh is what _ssh returned. A None (no output) is iterated by the list
\* comprehension of _filter_metrics, or by sorted() when exclude is empty.
_list_metrics(sh, exclude, owned) ==
  IF sh.kind = "raise" THEN sh
  ELSE IF sh.kind = "None" THEN Raise("TypeError", "_list_metrics")
  ELSE Value(sorted(sieve_filterMetrics(_filter_metrics(sh.value, exclude), owned)))

\* carbonate_util.metric_to_fs: the dots become slashes, ".wsp" is appended.
metric_to_fs(m) ==
  [i \in 1..Len(m) |-> IF m[i] = "." THEN "/" ELSE m[i]] \o <<".", "w", "s", "p">>

DEFAULT_EXCLUDE == << Pattern(TRUE, <<"c", "a", "r", "b", "o", "n", ".">>, FALSE) >>

(***************************************************************************)
(* _Batch: a namedtuple of eight fields.                                   *)
(***************************************************************************)
_Batch_fields ==
  {"staging_dir", "metrics_fs", "start_time", "end_time",
   "remote_user", "remote_node", "rsync_options", "ssh_options"}

\* _Batch(**attr): a keyword that is no field, or a missing field, is a TypeError.
_Batch(attr) == IF DOMAIN attr = _Batch_fields THEN Value(attr) ELSE Raise("TypeError", "_Batch")

metrics_number(batch) == Len(batch.metrics_fs)

RECURSIVE chunks_from_short(_, _, _)
\* The slice taken one short: metrics_fs[n:n+chunksize-1].
chunks_from_short(self, n, chunksize) ==
  IF n >= Len(self.metrics_fs) THEN <<>>
  ELSE << [self EXCEPT !.metrics_fs =
             SubSeq(self.metrics_fs, n + 1,
                    Min(n + chunksize - 1, Len(self.metrics_fs)))] >>
       \o chunks_from_short(self, n + chunksize, chunksize)

RECURSIVE chunks_from_dowhile(_, _, _)
\* The loop entered before its test: an empty list gives one empty batch.
chunks_from_dowhile(self, n, chunksize) ==
  IF n >= Len(self.metrics_fs) /\ n > 0 THEN <<>>
  ELSE << [self EXCEPT !.metrics_fs =
             SubSeq(self.metrics_fs, n + 1, Min(n + chunksize, Len(self.metrics_fs)))] >>
       \o chunks_from_dowhile(self, n + chunksize, chunksize)

RECURSIVE chunks_from(_, _, _)
\* The loop of split_chunks from offset n on (n is 0-based, as in the code).
chunks_from(self, n, chunksize) ==
  IF n >= Len(self.metrics_fs) THEN <<>>
  ELSE << [self EXCEPT !.metrics_fs =
             SubSeq(self.metrics_fs, n + 1, Min(n + chunksize, Len(self.metrics_fs)))] >>
       \o chunks_from(self, n + chunksize, chunksize)

\* range() refuses a step of zero.
split_chunks(self, chunksize) ==
  IF chunksize = 0 THEN Raise("ValueError", "split_chunks") ELSE Value(chunks_from(self, 0, chunksize))


(***************************************************************************)
(* The storage-merge collaborator, carbonate.sync.heal_metric(source,      *)
(* dest, start_time=0, end_time=None, overwrite=False).  A whisper file is *)
(* a function from the timestamps that hold a point to the points' values. *)
(***************************************************************************)
InWindow(t, windowed, start_time, end_time) ==
  ~windowed \/ (start_time <= t /\ t <= end_time)

heal_metric(src, dst, windowed, start_time, end_time, overwrite) ==
  LET eligible == {t \in DOMAIN src : InWindow(t, windowed, start_time, end_time)}
  IN  [t \in DOMAIN dst \cup eligible |->
         IF t \in DOMAIN dst /\ ~(overwrite /\ t \in eligible) THEN dst[t] ELSE src[t]]

\* The return of _heal inside its loop: the first metric alone is healed.
heal_prefix_first(batch, k, have_range, staging, storage) ==
  IF k = 0 THEN storage
  ELSE LET metric == batch.metrics_fs[1]
       IN  [storage EXCEPT ![metric] =
              heal_metric(staging[metric], storage[metric], have_range,
                          batch.start_time, batch.end_time, FALSE)]

RECURSIVE heal_prefix(_, _, _, _, _)
\* The loop of _heal over the first k metrics of the batch: src is the file
\* of the staging directory, dst the one of STORAGE_DIR; heal_metric is
\* called without overwrite, which leaves its default.
heal_prefix(batch, k, have_range, staging, storage) ==
  IF k = 0 THEN storage
  ELSE LET before == heal_prefix(batch, k - 1, have_range, staging, storage)
           metric == batch.metrics_fs[k]
           src == staging[metric]
           dst == before[metric]
       IN  [before EXCEPT ![metric] =
              IF have_range
              THEN heal_metric(src, dst, TRUE, batch.start_time, batch.end_time, FALSE)
              ELSE heal_metric(src, dst, FALSE, 0, 0, FALSE)]

_heal(batch, have_range, staging, storage) ==
  heal_prefix(batch, Len(batch.metrics_fs), have_range, staging, storage)

(***************************************************************************)
(* State.                                                                  *)
(***************************************************************************)
VARIABLES
  \* main(): the command line, the cluster and the machine
  exclude,          \* args.exclude
  batch_size,       \* args.batch_size
  owned,            \* the names the sieve keeps for local_node
  cpu_count,        \* multiprocessing.cpu_count()
  PARALLEL,         \* the module's switch to the serialized version
  \* main(): the loop over remote_nodes
  pc,               \* where main() is
  error,            \* the exception that ended main(), NoError if none
  node,             \* the peer being synced, 1..NumPeers
  metrics,          \* what _list_metrics returned for the peer
  staging,          \* the peers whose staging directory exists
  batches,          \* fetch_batches
  \* _fetch_merge
  pools,            \* the multiprocessing pools that exist
  fstate,           \* per fetch batch: queued, running, done, failed, consumed
  fresults,         \* results of the rsync pool not yet read, oldest first
  fetched,          \* the batches rsync has copied to the staging directory
  batch_fetched,    \* index of the batch_fetched of the outer loop, 0 if none
  heal_batches,     \* the pieces of batch_fetched
  hstate,           \* per heal piece: queued, running, done, failed, consumed
  hdone,            \* per heal piece: the metrics _heal has passed
  hresults,         \* results of the heal pool not yet read, oldest first
  work_done,
  cb,               \* the values given to update_cb for this peer, in order
  heal_calls,       \* per path: heal_metric calls that returned, this peer
  heal_errors,      \* heal_metric calls that raised, this peer
  \* SpecResolve, SpecPlan
  rcall,            \* the last call of _filter_metrics or _list_metrics
  pcall,            \* the last call of split_chunks
  \* SpecHeal
  HAVE_HEAL_WITH_TIME_RANGE,
  tpc,              \* where the test is
  attr,             \* the keyword arguments given to _Batch
  tbatch,           \* the batch built from them
  staged,           \* path -> whisper file of the staging directory
  local0,           \* path -> whisper file of STORAGE_DIR before _heal
  local             \* path -> whisper file of STORAGE_DIR

confVars == <<exclude, batch_size, owned, cpu_count, PARALLEL>>
mainVars == <<pc, error, node, metrics, staging, batches>>
poolVars == <<pools, fstate, fresults, fetched, batch_fetched, heal_batches, hstate, hdone, hresults>>
progressVars == <<work_done, cb, heal_calls, heal_errors>>
callVars == <<rcall, pcall>>
testVars == <<HAVE_HEAL_WITH_TIME_RANGE, tpc, attr, tbatch, staged, local0, local>>
vars == <<confVars, mainVars, poolVars, progressVars, callVars, testVars>>

(***************************************************************************)
(* Inputs of Spec.                                                         *)
(***************************************************************************)
CarbonA == <<"c", "a", "r", "b", "o", "n", ".", "a">>
MainNames == {<<"a">>, <<"b">>, CarbonA}
MainPaths == {metric_to_fs(m) : m \in MainNames}

\* What carbon-list may print, as stdout.split('\n'): nothing, a lone
\* newline, or names with a newline after each (repeated names included).
StdoutLines ==
  {NoOutput, << <<>>, <<>> >>}
    \cup {Append(c, <<>>) : c \in SeqsUpTo(MainNames, MaxCatalogue) \ {<<>>}}

OwnedChoices == {MainNames, MainNames \ {<<"b">>}}

RSYNC_OPTIONS == <<"--archive", "--sparse", "--update", "--modify-window=100800">>
SSH_OPTIONS ==
  <<"-o", "StrictHostKeyChecking=no", "-o", "UserKnownHostsFile=/dev/null",
    "-o", "Compression=no">>
ArgEndTime == MaxTime + 1

NoCall == [fn |-> "none"]
NoFiles == <<>>

\* The variables a specification does not use stay as they are here.
MainIdle ==
  /\ exclude = DEFAULT_EXCLUDE /\ batch_size = 1 /\ owned = MainNames
  /\ cpu_count = 1 /\ PARALLEL = TRUE
  /\ pc = "idle" /\ error = NoError /\ node = 1 /\ metrics = <<>> /\ staging = {}
  /\ batches = <<>>
  /\ pools = {} /\ fstate = <<>> /\ fresults = <<>> /\ fetched = {}
  /\ batch_fetched = 0
  /\ heal_batches = <<>> /\ hstate = <<>> /\ hdone = <<>> /\ hresults = <<>>
  /\ work_done = 0 /\ cb = <<>> /\ heal_calls = [p \in MainPaths |-> 0]
  /\ heal_errors = 0

CallIdle == rcall = NoCall /\ pcall = NoCall

TestIdle ==
  /\ HAVE_HEAL_WITH_TIME_RANGE = TRUE /\ tpc = "idle" /\ attr = NoCall
  /\ tbatch = NoCall /\ staged = NoFiles /\ local0 = NoFiles /\ local = NoFiles

(***************************************************************************)
(* main()                                                                  *)
(***************************************************************************)
Init ==
  /\ exclude = DEFAULT_EXCLUDE
  /\ batch_size \in 1..MaxBatchSize
  /\ owned \in OwnedChoices
  /\ cpu_count \in 1..MaxCpu
  /\ PARALLEL \in BOOLEAN
  /\ pc = "list" /\ error = NoError /\ node = 1 /\ metrics = <<>> /\ staging = {}
  /\ batches = <<>>
  /\ pools = {} /\ fstate = <<>> /\ fresults = <<>> /\ fetched = {}
  /\ batch_fetched = 0
  /\ heal_batches = <<>> /\ hstate = <<>> /\ hdone = <<>> /\ hresults = <<>>
  /\ work_done = 0 /\ cb = <<>> /\ heal_calls = [p \in MainPaths |-> 0]
  /\ heal_errors = 0
  /\ CallIdle /\ TestIdle

\* An exception nothing catches ends main() where it is.
Crash(e) == pc' = "crashed" /\ error' = e

\* metrics = _list_metrics(...)
ListMetrics ==
  /\ pc = "list"
  /\ \E returncode \in {0, 1}, lines \in StdoutLines :
       LET r == _list_metrics(_ssh(returncode, lines), exclude, owned)
       IN  IF r.kind = "raise"
           THEN Crash(r.error) /\ UNCHANGED metrics
           ELSE pc' = "staging" /\ metrics' = r.value /\ UNCHANGED error
  /\ UNCHANGED <<confVars, node, staging, batches, poolVars, progressVars,
                 callVars, testVars>>

\* staging_dir = _make_staging_dir(...); batches = _Batch(...).split_chunks(...)
MakeBatches ==
  /\ pc = "staging"
  /\ staging' = staging \cup {node}
  /\ LET metrics_fs == [i \in 1..Len(metrics) |-> metric_to_fs(metrics[i])]
         whole == _Batch([staging_dir |-> node, metrics_fs |-> metrics_fs,
                          start_time |-> ArgStartTime, end_time |-> ArgEndTime,
                          remote_user |-> "ssh_user", remote_node |-> node,
                          rsync_options |-> RSYNC_OPTIONS,
                          ssh_options |-> SSH_OPTIONS])
         r == IF whole.kind = "raise" THEN whole
              ELSE split_chunks(whole.value, batch_size)
     IN  IF r.kind = "raise"
         THEN Crash(r.error) /\ UNCHANGED batches
         ELSE pc' = "fetch_merge" /\ batches' = r.value /\ UNCHANGED error
  /\ UNCHANGED <<confVars, node, metrics, poolVars, progressVars, callVars, testVars>>

total_metrics_number == LET S[i \in 0..Len(batches)] ==
                              IF i = 0 THEN 0 ELSE S[i - 1] + metrics_number(batches[i])
                        IN  S[Len(batches)]

\* The fetch share credited once per batch, whatever its size.
fetch_work_per_batch(batch) == fetch_percent

\* The work one fetched batch and one healed piece add to work_done.
fetch_work(batch) == fetch_percent * metrics_number(batch)
\* The heal share taken for the whole: 100 per healed metric.
heal_work_whole(batch) == (fetch_percent + heal_percent) * metrics_number(batch)
heal_work(batch) == heal_percent * metrics_number(batch)

\* update_cb(value)
update_cb(value) == cb' = Append(cb, value)

\* The calls of heal_metric that returned, with those of the first k metrics
\* of the batch added.
Healed(calls, batch, k) ==
  [p \in DOMAIN calls |->
     calls[p] + Cardinality({i \in 1..k : batch.metrics_fs[i] = p})]

\* The start of _fetch_merge, in the progress bar main() opens for the peer:
\* the first update, and the two pools with the fetch batches handed to
\* imap_unordered.
FetchMergeStart ==
  /\ pc = "fetch_merge"
  /\ work_done' = 0
  /\ cb' = <<0>>
  /\ heal_calls' = [p \in MainPaths |-> 0]
  /\ heal_errors' = 0
  /\ fstate' = [i \in 1..Len(batches) |-> "queued"]
  /\ fresults' = <<>> /\ fetched' = {} /\ batch_fetched' = 0
  /\ heal_batches' = <<>> /\ hstate' = <<>> /\ hdone' = <<>> /\ hresults' = <<>>
  /\ IF PARALLEL
     THEN pools' = {"rsync_workers", "heal_workers"} /\ pc' = "fetch_loop"
     ELSE pools' = {} /\ pc' = "serial"
  /\ UNCHANGED <<confVars, error, node, metrics, staging, batches, callVars, testVars>>

Count(f, v) == Cardinality({i \in DOMAIN f : f[i] = v})
FirstQueued(f, i) == f[i] = "queued" /\ \A j \in 1..(i - 1) : f[j] # "queued"

(***************************************************************************)
(* The serialized version (PARALLEL = False): one pass of the loop.        *)
(***************************************************************************)
SerialBatch ==
  /\ pc = "serial"
  /\ \E i \in DOMAIN batches :
       /\ FirstQueued(fstate, i)
       /\ LET batch == batches[i]
              done == work_done + fetch_work(batch) + heal_work(batch)
          IN  \/ \* _fetch_from_remote raises: rsync failed
                 /\ Crash(Exception("Error", "_fetch_from_remote"))
                 /\ fstate' = [fstate EXCEPT ![i] = "failed"]
                 /\ UNCHANGED <<fetched, progressVars>>
              \/ \* heal_metric raises on the k-th metric of the batch
                 \E k \in 1..metrics_number(batch) :
                   /\ Crash(Exception("HealError", "_heal"))
                   /\ fstate' = [fstate EXCEPT ![i] = "failed"]
                   /\ fetched' = fetched \cup {i}
                   /\ heal_calls' = Healed(heal_calls, batch, k - 1)
                   /\ heal_errors' = heal_errors + 1
                   /\ UNCHANGED <<work_done, cb>>
              \/ /\ fstate' = [fstate EXCEPT ![i] = "consumed"]
                 /\ fetched' = fetched \cup {i}
                 /\ heal_calls' = Healed(heal_calls, batch, metrics_number(batch))
                 /\ work_done' = done
                 /\ update_cb(done \div total_metrics_number)
                 /\ UNCHANGED <<pc, error, heal_errors>>
  /\ UNCHANGED <<confVars, node, metrics, staging, batches, pools, fresults,
                 batch_fetched, heal_batches, hstate, hdone, hresults,
                 callVars, testVars>>

(***************************************************************************)
(* The rsync pool: imap_unordered hands the batches to at most             *)
(* _MAX_PARALLEL_RSYNC workers in order; results queue up as tasks end.    *)
(***************************************************************************)
\* The workers of a pool at work only while main() waits in the outer loop.
PoolsWork_outer_loop == pc = "fetch_loop"

PoolsWork == pc \in {"fetch_loop", "heal_loop"}

\* The batches taken in the order of fetch_batches, whatever the pool has
\* returned: the first one the loop has not had yet.
first_unread(results) ==
  CHOOSE i \in DOMAIN fstate :
    fstate[i] # "consumed" /\ \A j \in 1..(i - 1) : fstate[j] = "consumed"

\* What the iterator of rsync_workers.imap_unordered yields: the result of
\* the task that ended first among those not yet read.
fetch_result(results) == Head(results)

\* A loop that takes every result as a batch, a failed task's too.
next_raises_never(state) == FALSE

\* next() of an imap_unordered iterator raises what the task raised.
next_raises(state) == state = "failed"

FetchStart(i) ==
  /\ PoolsWork /\ "rsync_workers" \in pools
  /\ FirstQueued(fstate, i)
  /\ Count(fstate, "running") < _MAX_PARALLEL_RSYNC
  /\ fstate' = [fstate EXCEPT ![i] = "running"]
  /\ UNCHANGED <<confVars, mainVars, pools, fresults, fetched, batch_fetched, heal_batches,
                 hstate, hdone, hresults, progressVars, callVars, testVars>>

\* _fetch_from_remote returns the batch.
FetchDone(i) ==
  /\ PoolsWork
  /\ fstate[i] = "running"
  /\ fstate' = [fstate EXCEPT ![i] = "done"]
  /\ fetched' = fetched \cup {i}
  /\ fresults' = Append(fresults, i)
  /\ UNCHANGED <<confVars, mainVars, pools, batch_fetched, heal_batches,
                 hstate, hdone, hresults, progressVars, callVars, testVars>>

\* rsync exits non-zero: _run raises in the worker.
FetchFail(i) ==
  /\ PoolsWork
  /\ fstate[i] = "running"
  /\ fstate' = [fstate EXCEPT ![i] = "failed"]
  /\ fetched' = fetched
  /\ fresults' = Append(fresults, i)
  /\ UNCHANGED <<confVars, mainVars, pools, batch_fetched, heal_batches,
                 hstate, hdone, hresults, progressVars, callVars, testVars>>

\* One pass of the outer loop up to the inner one: the next result of the
\* rsync pool, the progress of the fetch, the heal pieces handed to the
\* heal pool.
NextFetched ==
  /\ pc = "fetch_loop"
  /\ fresults # <<>>
  /\ LET i == fetch_result(fresults)
         batch == batches[i]
         done == work_done + fetch_work(batch)
         heal_chunksize == metrics_number(batch) \div cpu_count
         pieces == split_chunks(batch, heal_chunksize)
     IN  /\ fresults' = Tail(fresults)
         /\ IF next_raises(fstate[i])
            THEN /\ Crash(Exception("Error", "_fetch_from_remote"))
                 /\ UNCHANGED <<fstate, batch_fetched, heal_batches, hstate, hdone,
                                hresults, progressVars>>
            ELSE /\ fstate' = [fstate EXCEPT ![i] = "consumed"]
                 /\ batch_fetched' = i
                 /\ work_done' = done
                 /\ update_cb(done \div total_metrics_number)
                 /\ hresults' = <<>>
                 /\ UNCHANGED <<heal_calls, heal_errors>>
                 /\ IF pieces.kind = "raise"
                    THEN /\ Crash(pieces.error)
                         /\ UNCHANGED <<heal_batches, hstate, hdone>>
                    ELSE /\ heal_batches' = pieces.value
                         /\ hstate' = [p \in DOMAIN pieces.value |-> "queued"]
                         /\ hdone' = [p \in DOMAIN pieces.value |-> 0]
                         /\ pc' = IF pieces.value = <<>> THEN "fetch_loop" ELSE "heal_loop"
                         /\ UNCHANGED error
  /\ UNCHANGED <<confVars, node, metrics, staging, batches, pools, fetched, callVars,
                 testVars>>

(***************************************************************************)
(* The heal pool: cpu_count workers, one piece per task.                   *)
(***************************************************************************)
HealStart(p) ==
  /\ PoolsWork /\ "heal_workers" \in pools
  /\ FirstQueued(hstate, p)
  /\ Count(hstate, "running") < cpu_count
  /\ hstate' = [hstate EXCEPT ![p] = "running"]
  /\ UNCHANGED <<confVars, mainVars, pools, fstate, fresults, fetched, batch_fetched,
                 heal_batches, hdone, hresults, progressVars, callVars, testVars>>

\* _heal went through the whole piece and returns it.
HealDone(p) ==
  /\ PoolsWork
  /\ hstate[p] = "running"
  /\ hstate' = [hstate EXCEPT ![p] = "done"]
  /\ hdone' = [hdone EXCEPT ![p] = metrics_number(heal_batches[p])]
  /\ heal_calls' = Healed(heal_calls, heal_batches[p], metrics_number(heal_batches[p]))
  /\ hresults' = Append(hresults, p)
  /\ UNCHANGED <<confVars, mainVars, pools, fstate, fresults, fetched, batch_fetched,
                 heal_batches, work_done, cb, heal_errors, callVars, testVars>>

\* heal_metric raises on the k-th metric of the piece: the loop of _heal ends
\* there.
HealFail(p, k) ==
  /\ PoolsWork
  /\ hstate[p] = "running"
  /\ k \in 1..metrics_number(heal_batches[p])
  /\ hstate' = [hstate EXCEPT ![p] = "failed"]
  /\ hdone' = [hdone EXCEPT ![p] = k - 1]
  /\ heal_calls' = Healed(heal_calls, heal_batches[p], k - 1)
  /\ heal_errors' = heal_errors + 1
  /\ hresults' = Append(hresults, p)
  /\ UNCHANGED <<confVars, mainVars, pools, fstate, fresults, fetched, batch_fetched,
                 heal_batches, work_done, cb, callVars, testVars>>

\* The inner loop left after its first result.
first_healed(states, p) == TRUE

\* The inner loop ends when the iterator of the heal pool is exhausted: piece
\* p was the last one to be read.
all_healed(states, p) == \A q \in DOMAIN states \ {p} : states[q] = "consumed"

\* One pass of the inner loop: the next result of the heal pool. After the
\* last piece the outer loop goes on.
NextHealed ==
  /\ pc = "heal_loop"
  /\ hresults # <<>>
  /\ LET p == Head(hresults)
         done == work_done + heal_work(heal_batches[p])
     IN  /\ hresults' = Tail(hresults)
         /\ IF next_raises(hstate[p])
            THEN Crash(Exception("HealError", "_heal")) /\ UNCHANGED <<hstate, work_done, cb>>
            ELSE /\ hstate' = [hstate EXCEPT ![p] = "consumed"]
                 /\ work_done' = done
                 /\ update_cb(done \div total_metrics_number)
                 /\ pc' = IF all_healed(hstate, p)
                          THEN "fetch_loop" ELSE "heal_loop"
                 /\ UNCHANGED error
  /\ UNCHANGED <<confVars, node, metrics, staging, batches, pools, fstate, fresults,
                 fetched, batch_fetched, heal_batches, hdone, heal_calls, heal_errors,
                 callVars, testVars>>

\* Every batch went through the loop: the pools are closed and joined (there
\* are none in the serialized version) and _fetch_merge returns.
FetchMergeReturn ==
  /\ pc \in {"fetch_loop", "serial"}
  /\ \A i \in DOMAIN fstate : fstate[i] = "consumed"
  /\ pools' = {}
  /\ pc' = "cleanup"
  /\ UNCHANGED <<confVars, error, node, metrics, staging, batches, fstate, fresults,
                 fetched, batch_fetched, heal_batches, hstate, hdone, hresults, progressVars,
                 callVars, testVars>>

\* The loop of main() without its shutil.rmtree.
Cleanup_without_rmtree ==
  /\ pc = "cleanup"
  /\ IF node < NumPeers
     THEN node' = node + 1 /\ pc' = "list"
     ELSE pc' = "done" /\ UNCHANGED node
  /\ UNCHANGED <<confVars, error, metrics, staging, batches, poolVars, progressVars,
                 callVars, testVars>>

\* shutil.rmtree(staging_dir), and the next remote node if there is one.
Cleanup ==
  /\ pc = "cleanup"
  /\ staging' = staging \ {node}
  /\ IF node < NumPeers
     THEN node' = node + 1 /\ pc' = "list"
     ELSE pc' = "done" /\ UNCHANGED node
  /\ UNCHANGED <<confVars, error, metrics, batches, poolVars, progressVars,
                 callVars, testVars>>

Next ==
  \/ ListMetrics
  \/ MakeBatches
  \/ FetchMergeStart
  \/ SerialBatch
  \/ \E i \in DOMAIN fstate : FetchStart(i)
  \/ \E i \in DOMAIN fstate : FetchDone(i)
  \/ \E i \in DOMAIN fstate : FetchFail(i)
  \/ NextFetched
  \/ \E p \in DOMAIN hstate : HealStart(p)
  \/ \E p \in DOMAIN hstate : HealDone(p)
  \/ \E p \in DOMAIN hstate : \E k \in 1..metrics_number(heal_batches[p]) : HealFail(p, k)
  \/ NextHealed
  \/ FetchMergeReturn
  \/ Cleanup

Spec == Init /\ [][Next]_vars

(***************************************************************************)
(* Properties of main() and _fetch_merge, checked under Spec.              *)
(***************************************************************************)
Range(f) == {f[i] : i \in DOMAIN f}
Last(q) == q[Len(q)]
NoDuplicates(q) == \A i, j \in DOMAIN q : q[i] = q[j] => i = j
HealedTotal ==
  LET S[i \in 0..Len(metrics)] ==
        IF i = 0 THEN 0
        ELSE S[i - 1] + IF \E j \in 1..(i - 1) : metrics[j] = metrics[i] THEN 0
                        ELSE heal_calls[metric_to_fs(metrics[i])]
  IN  S[Len(metrics)]
ListingFailed == pc = "crashed" /\ error.where \in {"_run", "_list_metrics"}

\* C1: no two heal tasks that run at the same time hold the same MetricPath.
C1_OneWriterPerPath ==
  \A p, q \in DOMAIN hstate :
    (p # q /\ hstate[p] = "running" /\ hstate[q] = "running")
      => Range(heal_batches[p].metrics_fs) \cap Range(heal_batches[q].metrics_fs) = {}

\* C3: when main() has ended, by its last peer or by an exception, no staging
\* directory is left (stated for the pooled version).
C3_StagingDeletedAtEnd == (PARALLEL /\ pc \in {"done", "crashed"}) => staging = {}

\* C4 as stated: at the end of a peer's run in which heal_metric failed, every
\* metric but the failed ones has been healed (stated for the pooled version
\* and a list without repeated names).
C4_FailureIsolated ==
  (PARALLEL /\ NoDuplicates(metrics) /\ heal_errors > 0 /\ pc \in {"crashed", "cleanup"})
    => HealedTotal = Len(metrics) - heal_errors

\* C4 as amended: once a heal_metric call has failed, the rest of its piece is
\* not healed, main() is in the inner loop until it reads the failed result
\* and is ended by the exception then; not every metric is healed, the
\* reported progress stays below 100 and the staging directory stays.
C4_HealFailureAborts ==
  heal_errors > 0 =>
    /\ pc \in {"heal_loop", "crashed"}
    /\ pc = "crashed" => error = Exception("HealError", "_heal")
    /\ \A p \in DOMAIN hstate :
         hstate[p] = "failed" => hdone[p] < metrics_number(heal_batches[p])
    /\ HealedTotal < Len(metrics)
    /\ Last(cb) < 100
    /\ node \in staging

\* A failed piece with metrics healed before the failure, read by main() while
\* another batch has not gone through the loop.
C4_Witness ==
  /\ pc = "crashed" /\ heal_errors > 0
  /\ \E p \in DOMAIN hstate : hstate[p] = "failed" /\ hdone[p] > 0
  /\ \E i \in DOMAIN fstate : fstate[i] # "consumed"

\* C5: main() is ended by a failed listing only when no peer remains.
C5_ListingFailureSkipsPeer == ListingFailed => node = NumPeers

\* C6: the values given to update_cb for a peer never decrease and lie in 0..100.
C6_ProgressMonotone ==
  \A i \in 1..Len(cb) :
    /\ 0 <= cb[i] /\ cb[i] <= 100
    /\ i > 1 => cb[i - 1] <= cb[i]

\* Fetch and heal updates of more than one batch, up to 100.
C6_Witness ==
  /\ PARALLEL /\ Len(batches) > 1 /\ Len(cb) > 4
  /\ Last(cb) = 100
  /\ \E i \in 1..Len(cb) : 0 < cb[i] /\ cb[i] < 100

(***************************************************************************)
(* SpecResolve: calls of _filter_metrics and _list_metrics.                *)
(***************************************************************************)
RNames == {<<"a">>, <<"b">>, <<"a", ".">>, <<".", "a">>}
RLiterals == {<<>>, <<"a">>, <<".">>, <<"a", ".">>}
RPatterns == {Pattern(bol, lit, eol) : bol \in BOOLEAN, lit \in RLiterals, eol \in BOOLEAN}
ROwned == {RNames, RNames \ {<<"b">>}, {}}

\* test_filter_metrics: '^carbon\.' and '\.foo$' on three names.
TestExclude ==
  << Pattern(TRUE, <<"c", "a", "r", "b", "o", "n", ".">>, FALSE),
     Pattern(FALSE, <<".", "f", "o", "o">>, TRUE) >>
CarbonBar == <<"c", "a", "r", "b", "o", "n", ".", "b", "a", "r">>
CarbonfooBar == <<"c", "a", "r", "b", "o", "n", "f", "o", "o", ".", "b", "a", "r">>
BarFoo == <<"b", "a", "r", ".", "f", "o", "o">>
TestMetrics == <<CarbonBar, CarbonfooBar, BarFoo>>

\* One call per behaviour: the functions keep no state between calls.
InitResolve == MainIdle /\ CallIdle /\ TestIdle

FilterCall ==
  /\ rcall = NoCall
  /\ \E in \in (SeqsUpTo(RNames, MaxFilterLen) \X SeqsUpTo(RPatterns, MaxExclude))
               \cup {<<TestMetrics, TestExclude>>} :
       rcall' = [fn |-> "_filter_metrics", metrics |-> in[1], exclude |-> in[2],
                 ret |-> _filter_metrics(in[1], in[2])]
  /\ UNCHANGED <<confVars, mainVars, poolVars, progressVars, pcall, testVars>>

ListCall ==
  /\ rcall = NoCall
  /\ \E returncode \in {0, 1}, names \in SeqsUpTo(RNames, MaxFilterLen),
        ex \in SeqsUpTo(RPatterns, 1), own \in ROwned :
       LET lines == Append(names, <<>>)
       IN  rcall' = [fn |-> "_list_metrics", returncode |-> returncode, lines |-> lines,
                     exclude |-> ex, owned |-> own,
                     ret |-> _list_metrics(_ssh(returncode, lines), ex, own)]
  /\ UNCHANGED <<confVars, mainVars, poolVars, progressVars, pcall, testVars>>

NextResolve == FilterCall \/ ListCall

SpecResolve == InitResolve /\ [][NextResolve]_vars

\* The pattern is found somewhere in the name: the name is a prefix, the
\* literal and a suffix, the prefix empty under "^", the suffix under "$".
Found(r, m) ==
  \E i \in 0..Len(m) : \E j \in i..Len(m) :
    /\ SubSeq(m, i + 1, j) = r.lit
    /\ r.bol => i = 0
    /\ r.eol => j = Len(m)

MatchesNone(m, ex) == \A i \in DOMAIN ex : ~Found(ex[i], m)

\* C9: what _list_metrics returns is sorted, without duplicates, without a
\* name an exclude pattern matches, and within the names the node owns.
C9_ResolvedList ==
  (rcall.fn = "_list_metrics" /\ rcall.ret.kind = "value") =>
    LET ret == rcall.ret.value
    IN  /\ \A i \in 1..(Len(ret) - 1) : StrLeq(ret[i], ret[i + 1])
        /\ NoDuplicates(ret)
        /\ \A i \in DOMAIN ret : MatchesNone(ret[i], rcall.exclude) /\ ret[i] \in rcall.owned

\* C10: _filter_metrics returns the metrics no exclude pattern is found in,
\* in the order of the input.
C10_FilterMetrics ==
  rcall.fn = "_filter_metrics" =>
    rcall.ret = SelectSeq(rcall.metrics, LAMBDA m : MatchesNone(m, rcall.exclude))

\* The call of test_filter_metrics and its expected result.
C10_Witness ==
  /\ rcall.fn = "_filter_metrics"
  /\ rcall.metrics = TestMetrics /\ rcall.exclude = TestExclude
  /\ rcall.ret = <<CarbonfooBar>>

(***************************************************************************)
(* SpecPlan: calls of split_chunks.                                        *)
(***************************************************************************)
PlanPaths == {"x.wsp", "y.wsp", "z.wsp"}

PlanBatch(metrics_fs) ==
  [staging_dir |-> "staging", metrics_fs |-> metrics_fs,
   start_time |-> ArgStartTime, end_time |-> ArgEndTime,
   remote_user |-> "ssh_user", remote_node |-> "node",
   rsync_options |-> RSYNC_OPTIONS, ssh_options |-> SSH_OPTIONS]

InitPlan == MainIdle /\ CallIdle /\ TestIdle

SplitCall ==
  /\ pcall = NoCall
  /\ \E metrics_fs \in SeqsUpTo(PlanPaths, MaxPlanLen), chunksize \in 0..MaxChunk :
       pcall' = [fn |-> "split_chunks", self |-> PlanBatch(metrics_fs),
                 chunksize |-> chunksize,
                 ret |-> split_chunks(PlanBatch(metrics_fs), chunksize)]
  /\ UNCHANGED <<confVars, mainVars, poolVars, progressVars, rcall, testVars>>

NextPlan == SplitCall

SpecPlan == InitPlan /\ [][NextPlan]_vars

RECURSIVE Concat(_)
\* The metric lists of the batches, one after the other.
Concat(bs) == IF bs = <<>> THEN <<>> ELSE Head(bs).metrics_fs \o Concat(Tail(bs))

\* C2: for a chunk size of 1 or more, split_chunks yields batches of at most
\* that many metrics whose metric lists, in order, make up the input list;
\* a path of a list without repeats is in one batch only.
C2_Planning ==
  (pcall.fn = "split_chunks" /\ pcall.chunksize >= 1) =>
    /\ pcall.ret.kind = "value"
    /\ LET res == pcall.ret.value
       IN  /\ \A k \in DOMAIN res :
                 /\ metrics_number(res[k]) <= pcall.chunksize
                 /\ res[k] = [pcall.self EXCEPT !.metrics_fs = res[k].metrics_fs]
           /\ Concat(res) = pcall.self.metrics_fs
           /\ NoDuplicates(pcall.self.metrics_fs) =>
                \A k, l \in DOMAIN res :
                  k # l => Range(res[k].metrics_fs) \cap Range(res[l].metrics_fs) = {}

\* A list split into a full batch and a shorter last one.
C2_Witness ==
  /\ pcall.fn = "split_chunks" /\ pcall.chunksize = 2
  /\ pcall.self.metrics_fs = <<"x.wsp", "y.wsp", "z.wsp">>
  /\ pcall.ret.kind = "value" /\ Len(pcall.ret.value) = 2
  /\ pcall.ret.value[2].metrics_fs = <<"z.wsp">>

(***************************************************************************)
(* SpecHeal: test_heal.  The test builds a _Batch from keyword arguments   *)
(* and calls _heal on it; the whisper files, the window and the keywords   *)
(* range over the sets below.                                              *)
(***************************************************************************)
Times == 1..MaxTime
PointValues == {1, 2}
WhisperFiles == UNION {[S -> PointValues] : S \in SUBSET Times}
TestFiles == {"foo.wsp", "bar.wsp"}

\* The keyword arguments of the test, with or without 'overwrite'.
TestAttr(metrics_fs, start_time, end_time) ==
  [staging_dir |-> "staging", metrics_fs |-> metrics_fs,
   start_time |-> start_time, end_time |-> end_time,
   remote_user |-> "graphite", remote_node |-> "foo",
   rsync_options |-> <<>>, ssh_options |-> <<>>]

TestAttrOverwrite(metrics_fs, start_time, end_time, overwrite) ==
  [staging_dir |-> "staging", metrics_fs |-> metrics_fs,
   start_time |-> start_time, end_time |-> end_time,
   remote_user |-> "graphite", remote_node |-> "foo",
   rsync_options |-> <<>>, ssh_options |-> <<>>, overwrite |-> overwrite]

\* foo.wsp holds any two files as its staged and local copy, bar.wsp the same
\* two exchanged.
InitHeal ==
  /\ MainIdle /\ CallIdle
  /\ HAVE_HEAL_WITH_TIME_RANGE \in BOOLEAN
  /\ tpc = "attr"
  /\ tbatch = NoCall
  /\ \E remote \in WhisperFiles, here \in WhisperFiles :
       /\ staged = [f \in TestFiles |-> IF f = "foo.wsp" THEN remote ELSE here]
       /\ local0 = [f \in TestFiles |-> IF f = "foo.wsp" THEN here ELSE remote]
  /\ local = local0
  /\ \E metrics_fs \in {<<"foo.wsp">>, <<"foo.wsp", "bar.wsp">>},
        start_time \in 0..(MaxTime + 1), end_time \in 0..(MaxTime + 1) :
       /\ start_time <= end_time
       /\ attr \in {TestAttr(metrics_fs, start_time, end_time)}
                     \cup {TestAttrOverwrite(metrics_fs, start_time, end_time, o) :
                             o \in BOOLEAN}

\* batch = carbonate_sync._Batch(**attr)
TestBatch ==
  /\ tpc = "attr"
  /\ LET r == _Batch(attr)
     IN  IF r.kind = "raise"
         THEN tpc' = r.error.type /\ UNCHANGED tbatch
         ELSE tpc' = "built" /\ tbatch' = r.value
  /\ UNCHANGED <<confVars, mainVars, poolVars, progressVars, callVars,
                 HAVE_HEAL_WITH_TIME_RANGE, attr, staged, local0, local>>

\* carbonate_sync._heal(batch)
TestHeal ==
  /\ tpc = "built"
  /\ local' = _heal(tbatch, HAVE_HEAL_WITH_TIME_RANGE, staged, local)
  /\ tpc' = "healed"
  /\ UNCHANGED <<confVars, mainVars, poolVars, progressVars, callVars,
                 HAVE_HEAL_WITH_TIME_RANGE, attr, tbatch, staged, local0>>

NextHeal == TestBatch \/ TestHeal

SpecHeal == InitHeal /\ [][NextHeal]_vars

\* t is in the window of the keyword arguments.
InAttrWindow(t) == attr.start_time <= t /\ t <= attr.end_time

\* The points the two copies of file f both hold, with different values.
Differing(f) ==
  {t \in DOMAIN staged[f] \cap DOMAIN local0[f] : staged[f][t] # local0[f][t]}

\* C7: the test goes through with overwrite=True, and then every point of the
\* window that the two copies held with different values has the staged value.
C7_OverwriteHeals ==
  (tpc # "attr" /\ "overwrite" \in DOMAIN attr /\ attr.overwrite) =>
    /\ tpc \in {"built", "healed"}
    /\ tpc = "healed" =>
         \A i \in DOMAIN attr.metrics_fs :
           LET f == attr.metrics_fs[i]
           IN  \A t \in Differing(f) : InAttrWindow(t) => local[f][t] = staged[f][t]

OfThisPeer == pc # "fetch_merge"

\* main() is in or behind the _fetch_merge of the peer whose metrics it holds.
InFetchMerge == pc \in {"fetch_loop", "heal_loop", "serial", "cleanup", "done"}

\* The metrics of the batches of the index set I.
MetricsOf(I) ==
  LET S[i \in 0..Len(batches)] ==
        IF i = 0 THEN 0
        ELSE S[i - 1] + IF i \in I THEN metrics_number(batches[i]) ELSE 0
  IN  S[Len(batches)]

\* The metrics of the heal pieces whose result the inner loop has read.
MetricsOfHealed ==
  LET S[p \in 0..Len(heal_batches)] ==
        IF p = 0 THEN 0
        ELSE S[p - 1] + IF hstate[p] = "consumed" THEN metrics_number(heal_batches[p]) ELSE 0
  IN  S[Len(heal_batches)]

Consumed == {i \in DOMAIN fstate : fstate[i] = "consumed"}
NoFailure == heal_errors = 0 /\ \A i \in DOMAIN fstate : fstate[i] # "failed"
\* Heal pieces are in the heal pool: handed to it and not yet read by the loop.
InHealPool == \E p \in DOMAIN hstate : hstate[p] # "consumed"
RechunkFailed == pc = "crashed" /\ error = Exception("ValueError", "split_chunks")
Ceil(n, w) == (n + w - 1) \div w

\* C11: for a peer whose resolved list is empty there are no batches, no
\* fetch task, no heal piece and no heal_metric call, main() is not ended by
\* an exception, the work done is the whole (zero) work from the first update
\* on, and _fetch_merge can return at once.
C11_EmptyPeer ==
  metrics = <<>> =>
    /\ pc = "crashed" => ListingFailed
    /\ pc = "fetch_merge" => batches = <<>>
    /\ InFetchMerge =>
         /\ batches = <<>> /\ fstate = <<>> /\ fetched = {}
         /\ heal_batches = <<>> /\ hstate = <<>>
         /\ \A path \in MainPaths : heal_calls[path] = 0
         /\ heal_errors = 0
         /\ cb = <<0>>
         /\ work_done = (fetch_percent + heal_percent) * total_metrics_number
         /\ pc # "heal_loop"
         /\ pc \in {"fetch_loop", "serial"} => ENABLED FetchMergeReturn

\* The second peer has no eligible metric and its run is at its cleanup.
C11_Witness ==
  /\ PARALLEL /\ node = 2 /\ metrics = <<>> /\ pc = "cleanup" /\ node \in staging

\* C12: the one staging directory that exists is the current peer's, no pool
\* exists and no staging directory is left while main() lists or plans a
\* peer, and main() goes to the next peer only by removing the staging
\* directory of the current one, its pools being gone.
C12_PeersOneAtATime ==
  /\ [](/\ staging \subseteq {node}
        /\ pc \in {"list", "staging", "fetch_merge"} => pools = {}
        /\ pc \in {"list", "staging"} => staging = {})
  /\ [][node' # node =>
          /\ node' = node + 1
          /\ pools = {} /\ pools' = {}
          /\ node \in staging /\ staging' = {}]_vars

\* The pipeline of the second peer at work.
C12_Witness ==
  /\ node = 2 /\ staging = {2} /\ pools = {"rsync_workers", "heal_workers"}
  /\ \E p \in DOMAIN hstate : hstate[p] = "running"

\* C13: the pieces of a fetched batch of n metrics are of size ceil(n/w) for
\* w = cpu_count (the last one possibly smaller), at most w, and make up the
\* batch's list; the split does not fail, n < w included.
C13_RechunkCeil ==
  PARALLEL =>
    /\ ~RechunkFailed
    /\ pc = "heal_loop" =>
         LET n == metrics_number(batches[batch_fetched])
             size == Ceil(n, cpu_count)
         IN  /\ Len(heal_batches) <= cpu_count
             /\ \A p \in DOMAIN heal_batches :
                  IF p < Len(heal_batches)
                  THEN metrics_number(heal_batches[p]) = size
                  ELSE metrics_number(heal_batches[p]) <= size
             /\ Concat(heal_batches) = batches[batch_fetched].metrics_fs

\* C14: a peer's run in which no transfer and no heal_metric call failed is
\* not ended by an exception, and when _fetch_merge has returned every batch
\* has been fetched, every metric healed once and the pools are gone (stated
\* for a list without repeated names).
C14_NoFailureRunCompletes ==
  (NoDuplicates(metrics) /\ NoFailure /\ ~ListingFailed) =>
    /\ pc # "crashed"
    /\ pc = "cleanup" =>
         /\ fetched = DOMAIN batches
         /\ \A i \in DOMAIN metrics : heal_calls[metric_to_fs(metrics[i])] = 1
         /\ pools = {}

\* C15: the heal pieces in the pool are those of a batch rsync has copied,
\* and a path heal_metric was called for is in a batch rsync has copied.
C15_HealAfterFetch ==
  OfThisPeer =>
    /\ InHealPool =>
         /\ batch_fetched \in fetched
         /\ Concat(heal_batches) = batches[batch_fetched].metrics_fs
    /\ \A path \in MainPaths :
         heal_calls[path] > 0 =>
           \E i \in fetched : path \in Range(batches[i].metrics_fs)

\* A batch healed while the transfer of another one has failed.
C15_Witness ==
  /\ PARALLEL /\ pc = "heal_loop"
  /\ \E p \in DOMAIN hstate : hstate[p] = "done"
  /\ \E i \in DOMAIN fstate : fstate[i] = "failed" /\ i \notin fetched

\* C16: while main() waits for heal pieces the rsync pool goes on: a running
\* transfer can end and a queued batch can start on a free worker.
C16_FetchDuringHeal ==
  pc = "heal_loop" =>
    /\ (\E i \in DOMAIN fstate : fstate[i] = "running")
         => ENABLED (\E i \in DOMAIN fstate : FetchDone(i))
    /\ (/\ \E i \in DOMAIN fstate : fstate[i] = "queued"
        /\ Count(fstate, "running") < _MAX_PARALLEL_RSYNC)
         => ENABLED (\E i \in DOMAIN fstate : FetchStart(i))

\* A heal piece of one batch and the transfer of a later batch both running.
C16_Witness ==
  /\ \E p \in DOMAIN hstate : hstate[p] = "running"
  /\ \E i \in DOMAIN fstate : i > batch_fetched /\ fstate[i] = "running"
  /\ batch_fetched >= 1

\* C17: main() is in the outer loop only when every heal piece has been read,
\* the pieces in the heal pool are those of the one batch taken last, and the
\* next fetched batch is taken (its progress recorded, its pieces submitted)
\* only then.
C17_BatchBarrier ==
  /\ [](/\ pc = "fetch_loop" => \A p \in DOMAIN hstate : hstate[p] = "consumed"
        /\ (OfThisPeer /\ InHealPool) =>
              Concat(heal_batches) = batches[batch_fetched].metrics_fs)
  /\ [][(batch_fetched' # batch_fetched \/ heal_batches' # heal_batches) =>
          \A p \in DOMAIN hstate : hstate[p] = "consumed"]_vars

\* The second piece of a batch ended before the first one.
C17_Witness ==
  /\ pc = "heal_loop" /\ Len(heal_batches) = 2
  /\ hresults = <<2, 1>>

\* C18: a batch whose transfer has not succeeded is never taken by the loop:
\* no heal piece is made of it, no heal_metric call is made for its metrics,
\* the work done is at most that of the batches copied, and a failed
\* transfer stays failed (it is not run again).
C18_TransferFailure ==
  /\ [](OfThisPeer =>
          /\ \A i \in DOMAIN fstate :
               i \notin fetched =>
                 /\ fstate[i] # "consumed"
                 /\ batch_fetched # i
                 /\ NoDuplicates(metrics) =>
                      \A path \in Range(batches[i].metrics_fs) : heal_calls[path] = 0
          /\ work_done <= (fetch_percent + heal_percent) * MetricsOf(fetched))
  /\ [][\A i \in DOMAIN fstate :
          fstate[i] = "failed" => (i \in DOMAIN fstate' /\ fstate'[i] = "failed")]_vars

\* main() ended by the exception of a failed transfer, another batch having
\* gone through the loop.
C18_Witness ==
  /\ PARALLEL /\ pc = "crashed" /\ error = Exception("Error", "_fetch_from_remote")
  /\ \E i \in DOMAIN fstate : fstate[i] = "failed" /\ i \notin fetched
  /\ \E j \in DOMAIN fstate : fstate[j] = "consumed"
  /\ work_done > 0

\* C19: work_done is 10 for every metric of a batch the loop has taken and
\* 90 for every metric of a piece the loop has taken; the value reported is
\* its quotient by the number of metrics; when _fetch_merge has returned for
\* a peer with metrics, work_done is 100 times their number and the value
\* reported last is 100.
C19_ProgressExact ==
  (OfThisPeer /\ ~RechunkFailed /\ ~ListingFailed) =>
    /\ work_done = fetch_percent * MetricsOf(Consumed)
                     + heal_percent * (MetricsOf(Consumed \ {batch_fetched}) + MetricsOfHealed)
    /\ (InFetchMerge /\ metrics # <<>>) => Last(cb) = work_done \div Len(metrics)
    /\ (pc = "cleanup" /\ metrics # <<>>) =>
         work_done = 100 * Len(metrics) /\ Last(cb) = 100

\* Three metrics in two batches, all fetched and healed by the pools.
C19_Witness ==
  /\ PARALLEL /\ pc = "cleanup" /\ Len(batches) = 2
  /\ work_done = 300 /\ Last(cb) = 100

\* What the serialized version ends with when nothing fails: _fetch_merge
\* returns, every batch copied, heal_metric called once per listed path.
SerialOutcome ==
  [ended |-> "cleanup", fetched |-> DOMAIN batches,
   heal_calls |-> [path \in MainPaths |->
                     Cardinality({i \in DOMAIN metrics : metric_to_fs(metrics[i]) = path})],
   progress |-> IF metrics = <<>> THEN 0 ELSE 100]

Outcome == [ended |-> pc, fetched |-> fetched, heal_calls |-> heal_calls, progress |-> Last(cb)]

\* C20: when nothing failed, the pooled version ends as the serialized one
\* does for the same batches.
C20_ModesEquivalent ==
  (pc \in {"cleanup", "crashed"} /\ NoFailure /\ ~ListingFailed) => Outcome = SerialOutcome

=============================================================================
